---- MODULE Spec2Model ----
(***************************************************************************)
(* Model of ldsapi.py: the Client class (endpoint discovery and            *)
(* normalisation, sign_in, sign_out, get_unit, get) and the session()      *)
(* context manager.  str.startswith, str.endswith, str.replace, slicing and *)
(* str.format are computed on the characters of the strings, as Python     *)
(* computes them.                                                          *)
(***************************************************************************)
EXTENDS Integers, Sequences, FiniteSets, TLC

VARIABLES
    phase,          \* "new" | "direct" | "body" | "exited" | "failed"
    bootstrap,      \* the JSON document the configuration URL serves
    endpoints,      \* Client._endpoints (empty before discovery)
    signed_in,      \* Client.signed_in
    unit_cache,     \* lru_cache of get_unit for this instance: <<>> or <<value>>
    last,           \* the last operation: inputs, outcome, requests it issued
    calls,          \* number of operations the caller has made
    stats           \* counters kept over the client's lifetime

vars == <<phase, bootstrap, endpoints, signed_in, unit_cache, last, calls, stats>>

---------------------------------------------------------------------------
(* Bounds *)

\* operations a caller makes on one client
MaxCalls == 3
\* pieces appended to the base URL of a generated bootstrap value
MaxChunks == 2

---------------------------------------------------------------------------
\* line 15
ENDPOINTS_URL == "https://tech.lds.org/mobile/ldstools/config.json"

---------------------------------------------------------------------------
(* Python str operations *)

\* s.startswith(p)
StartsWith(s, p) == Len(s) >= Len(p) /\ SubSeq(s, 1, Len(p)) = p

\* s.endswith(p)
EndsWith(s, p) == Len(s) >= Len(p) /\ SubSeq(s, Len(s) - Len(p) + 1, Len(s)) = p

\* p in s
Contains(s, p) == \E i \in 1..(Len(s) - Len(p) + 1) : SubSeq(s, i, i + Len(p) - 1) = p

\* s.replace(old, new): every non-overlapping occurrence, left to right
RECURSIVE Replace(_, _, _)
Replace(s, old, new) ==
    IF Len(s) < Len(old) THEN s
    ELSE IF StartsWith(s, old)
         THEN new \o Replace(SubSeq(s, Len(old) + 1, Len(s)), old, new)
         ELSE SubSeq(s, 1, 1) \o Replace(Tail(s), old, new)

\* s[:-2]
DropLast2(s) == SubSeq(s, 1, Len(s) - 2)

---------------------------------------------------------------------------
(* Client._retrieve_endpoints *)

\* a variant that keeps every entry of the document
RetainedAll(url) == TRUE

\* line 67: entries whose value does not start with 'http' are skipped
Retained(url) == StartsWith(url, "http")

\* a variant whose third unit test looks for the bare '%@' suffix
FixUnitBareSuffix(key, url) ==
    IF Contains(url, "unit/%@") THEN Replace(url, "unit/%@", "unit/{unit}")
    ELSE IF Contains(url, "unitNumber=%@") THEN Replace(url, "=%@", "={unit}")
    ELSE IF StartsWith(key, "unit-") /\ EndsWith(url, "%@")
         THEN DropLast2(url) \o "{unit}"
    ELSE url

\* lines 72-78: "Fix unit parameter"
FixUnit(key, url) ==
    IF Contains(url, "unit/%@") THEN Replace(url, "unit/%@", "unit/{unit}")
    ELSE IF Contains(url, "unitNumber=%@") THEN Replace(url, "=%@", "={unit}")
    ELSE IF StartsWith(key, "unit-") /\ EndsWith(url, "/%@")
         THEN DropLast2(url) \o "{unit}"
    ELSE url

\* lines 80-84: "Fix member parameter"
FixMember(url) ==
    IF Contains(url, "membership-record/%@") THEN Replace(url, "%@", "{member}")
    ELSE IF Contains(url, "photo/url/%@") THEN Replace(url, "url/%@", "url/{member}")
    ELSE url

\* one round of the loop of lines 87-89
FixPattern(url, pattern) ==
    IF Contains(url, pattern) THEN Replace(url, pattern, "{}") ELSE url

\* lines 86-89: "Fix misc", the patterns in the order of the tuple
FixMisc(url) == FixPattern(FixPattern(FixPattern(url, "%@"), "%d"), "%.0f")

\* lines 70-89: the template stored for one retained entry
Normalise(key, url) == FixMisc(FixMember(FixUnit(key, url)))

\* lines 64-89: the endpoint map built from the parsed document
retrieve_endpoints(doc) ==
    [key \in {k \in DOMAIN doc : Retained(doc[k])} |-> Normalise(key, doc[key])]

---------------------------------------------------------------------------
(* str.format as Client.get uses it (line 168) *)

FmtOk(url) == [ok |-> TRUE, err |-> "", url |-> url]
FmtErr(e) == [ok |-> FALSE, err |-> e, url |-> ""]

\* index of the first character of t that is in set, 0 when there is none
FirstOf(t, set) ==
    LET at == {i \in 1..Len(t) : SubSeq(t, i, i) \in set}
    IN IF at = {} THEN 0 ELSE CHOOSE i \in at : \A j \in at : i <= j

FirstClose(t) == FirstOf(t, {"}"})

\* the rest t of a template, formatted after the output out so far.  The
\* text up to the next brace is copied; "{{" and "}}" are literal braces;
\* "{}" takes the next positional argument and "{name}" the keyword argument
\* of that name; the first field that cannot be filled raises.
RECURSIVE FormatFrom(_, _, _, _)
FormatFrom(t, args, kw, out) ==
    LET b == FirstOf(t, {"{", "}"}) IN
    IF b = 0 THEN FmtOk(out \o t)
    ELSE LET lit == out \o SubSeq(t, 1, b - 1)
             u == SubSeq(t, b, Len(t))
         IN IF Len(u) >= 2 /\ SubSeq(u, 2, 2) = SubSeq(u, 1, 1)
            THEN FormatFrom(SubSeq(u, 3, Len(u)), args, kw, lit \o SubSeq(u, 1, 1))
            ELSE IF SubSeq(u, 1, 1) = "}" THEN FmtErr("ValueError")
            ELSE LET close == FirstClose(u) IN
                 IF close = 0 THEN FmtErr("ValueError")
                 ELSE LET name == SubSeq(u, 2, close - 1)
                          rest == SubSeq(u, close + 1, Len(u))
                      IN IF name = ""
                         THEN IF args = <<>> THEN FmtErr("IndexError")
                              ELSE FormatFrom(rest, Tail(args), kw, lit \o args[1])
                         ELSE IF name \notin DOMAIN kw THEN FmtErr("KeyError")
                              ELSE FormatFrom(rest, args, kw, lit \o kw[name])

\* t.format(*args, **kw); arguments the template does not use are ignored
Format(t, args, kw) == FormatFrom(t, args, kw, "")

\* the names of the "{name}" fields of a template
RECURSIVE FieldNames(_)
FieldNames(t) ==
    IF t = "" THEN {}
    ELSE IF SubSeq(t, 1, 1) = "{" /\ FirstClose(t) > 2
         THEN {SubSeq(t, 2, FirstClose(t) - 1)}
                  \cup FieldNames(SubSeq(t, FirstClose(t) + 1, Len(t)))
    ELSE FieldNames(Tail(t))

---------------------------------------------------------------------------
(* What one operation leaves behind: the requests it sent and the          *)
(* assignments to signed_in it made, in program order.                     *)

NoKw == [n \in {} |-> ""]

\* a request sent through self._session; ok: it brought back a response the
\* caller could use
Req(method, by, ep, url, si, ok) ==
    [kind |-> method, by |-> by, ep |-> ep, url |-> url, params |-> {},
     si |-> si, ok |-> ok]

\* an assignment self.signed_in = v
SetFlag(by, v) ==
    [kind |-> "SET", by |-> by, ep |-> "", url |-> "", params |-> {},
     si |-> v, ok |-> TRUE]

---------------------------------------------------------------------------
(* Client.get_unit, wrapped by lru_cache(maxsize=None) *)

\* a variant without the cache: the body runs on every call
get_unit_uncached(eps, si, cache, uresp) ==
    IF ~si
    THEN [outcome |-> "AssertionError", value |-> <<>>, cache |-> cache, trace |-> <<>>]
    ELSE IF "current-user-unit" \notin DOMAIN eps
    THEN [outcome |-> "KeyError", value |-> <<>>, cache |-> cache, trace |-> <<>>]
    ELSE LET r == Req("GET", "get_unit", "current-user-unit",
                      eps["current-user-unit"], si, uresp.net /\ uresp.msg # <<>>)
         IN IF ~uresp.net
            THEN [outcome |-> "ConnectionError", value |-> <<>>, cache |-> cache,
                  trace |-> <<r>>]
            ELSE IF uresp.msg = <<>>
            THEN [outcome |-> "KeyError", value |-> <<>>, cache |-> cache,
                  trace |-> <<r>>]
            ELSE [outcome |-> "ok", value |-> uresp.msg, cache |-> uresp.msg,
                  trace |-> <<r>>]

\* lines 91-102.  A cache hit returns the stored value without running the
\* body (so without the assert of line 98); a call that raises stores nothing.
get_unit_call(eps, si, cache, uresp) ==
    IF cache # <<>>
    THEN [outcome |-> "ok", value |-> cache, cache |-> cache, trace |-> <<>>]
    ELSE IF ~si
    THEN [outcome |-> "AssertionError", value |-> <<>>, cache |-> cache, trace |-> <<>>]
    ELSE IF "current-user-unit" \notin DOMAIN eps
    THEN [outcome |-> "KeyError", value |-> <<>>, cache |-> cache, trace |-> <<>>]
    ELSE LET r == Req("GET", "get_unit", "current-user-unit",
                      eps["current-user-unit"], si, uresp.net /\ uresp.msg # <<>>)
         IN IF ~uresp.net
            THEN [outcome |-> "ConnectionError", value |-> <<>>, cache |-> cache,
                  trace |-> <<r>>]
            ELSE IF uresp.msg = <<>>
            THEN [outcome |-> "KeyError", value |-> <<>>, cache |-> cache,
                  trace |-> <<r>>]
            ELSE [outcome |-> "ok", value |-> uresp.msg, cache |-> uresp.msg,
                  trace |-> <<r>>]

---------------------------------------------------------------------------
(* Client.get *)

\* line 165: kwargs['unit'] = self.get_unit()
WithUnit(kwargs, unit) ==
    [n \in DOMAIN kwargs \cup {"unit"} |-> IF n = "unit" THEN unit[1] ELSE kwargs[n]]

\* line 170, f being the outcome of the format call of line 168
get_formatted(u, f, endpoint, si, ok) ==
    IF ~f.ok
    THEN [outcome |-> f.err, cache |-> u.cache, trace |-> u.trace]
    ELSE [outcome |-> IF ok THEN "ok" ELSE "ConnectionError",
          cache |-> u.cache,
          trace |-> u.trace \o <<Req("GET", "get", endpoint, f.url, si, ok)>>]

\* lines 165-168, u being the outcome of the get_unit call
get_with_unit(u, eps, si, endpoint, args, kwargs, ok) ==
    IF u.outcome # "ok"
    THEN [outcome |-> u.outcome, cache |-> u.cache, trace |-> u.trace]
    ELSE get_formatted(u, Format(eps[endpoint], args, WithUnit(kwargs, u.value)),
                       endpoint, si, ok)

\* lines 165-170, once the endpoint is known to be in the map
get_known(eps, si, cache, endpoint, args, kwargs, uresp, ok) ==
    get_with_unit(get_unit_call(eps, si, cache, uresp), eps, si, endpoint, args,
                  kwargs, ok)

\* a variant that resolves the unit before it looks the endpoint up
get_unit_first(eps, si, cache, endpoint, args, kwargs, uresp, ok) ==
    LET u == get_unit_call(eps, si, cache, uresp) IN
    IF u.outcome # "ok"
    THEN [outcome |-> u.outcome, cache |-> u.cache, trace |-> u.trace]
    ELSE IF endpoint \notin DOMAIN eps
    THEN [outcome |-> "Error", cache |-> u.cache, trace |-> u.trace]
    ELSE get_known(eps, si, cache, endpoint, args, kwargs, uresp, ok)

\* lines 142-170
get_call(eps, si, cache, endpoint, args, kwargs, uresp, ok) ==
    IF endpoint \notin DOMAIN eps
    THEN [outcome |-> "Error", cache |-> cache, trace |-> <<>>]
    ELSE get_known(eps, si, cache, endpoint, args, kwargs, uresp, ok)

---------------------------------------------------------------------------
(* Client.sign_in *)

\* a variant that takes the status code as the sign of success
sign_in_by_status(eps, si, aresp) ==
    IF "auth-url" \notin DOMAIN eps
    THEN [outcome |-> "KeyError", si |-> si, trace |-> <<>>]
    ELSE LET r == Req("POST", "sign_in", "auth-url", eps["auth-url"], si, TRUE) IN
         IF aresp.status # 200
         THEN [outcome |-> "Error", si |-> si, trace |-> <<r>>]
         ELSE [outcome |-> "ok", si |-> TRUE, trace |-> <<r, SetFlag("sign_in", TRUE)>>]

\* lines 104-128 (the assert of line 117 cannot fail once __init__ has run
\* _retrieve_endpoints).  requests' header lookup ignores case, so 'etag'
\* finds an ETag header.
sign_in_call(eps, si, aresp) ==
    IF "auth-url" \notin DOMAIN eps
    THEN [outcome |-> "KeyError", si |-> si, trace |-> <<>>]
    ELSE LET r == Req("POST", "sign_in", "auth-url", eps["auth-url"], si, TRUE) IN
         IF ~aresp.etag
         THEN [outcome |-> "Error", si |-> si, trace |-> <<r>>]
         ELSE [outcome |-> "ok", si |-> TRUE, trace |-> <<r, SetFlag("sign_in", TRUE)>>]

---------------------------------------------------------------------------
(* Client.sign_out *)

\* a variant that clears the flag before it sends the request
sign_out_clear_first(eps, si, cache, uresp, ok) ==
    IF ~si
    THEN [outcome |-> "AssertionError", si |-> si, cache |-> cache, trace |-> <<>>]
    ELSE LET g == get_call(eps, FALSE, cache, "signout-url", <<>>, NoKw, uresp, ok) IN
         [outcome |-> g.outcome, si |-> FALSE, cache |-> g.cache,
          trace |-> <<SetFlag("sign_out", FALSE)>> \o g.trace]

\* lines 138-140, g being the outcome of self.get('signout-url'): the flag
\* is cleared when the call returns, and kept when it raises
sign_out_after_get(g, si) ==
    IF g.outcome # "ok"
    THEN [outcome |-> g.outcome, si |-> si, cache |-> g.cache, trace |-> g.trace]
    ELSE [outcome |-> "ok", si |-> FALSE, cache |-> g.cache,
          trace |-> g.trace \o <<SetFlag("sign_out", FALSE)>>]

\* lines 130-140
sign_out_call(eps, si, cache, uresp, ok) ==
    IF ~si
    THEN [outcome |-> "AssertionError", si |-> si, cache |-> cache, trace |-> <<>>]
    ELSE sign_out_after_get(get_call(eps, si, cache, "signout-url", <<>>, NoKw, uresp, ok),
                            si)

---------------------------------------------------------------------------
(* session(): the finally clause of lines 191-194 *)

\* a variant without try/finally: sign_out only follows a body that returns
cleanup_on_return_only(kind) == kind = "return"

\* whether client.sign_out() runs when the body ends the given way
\* ("return": the with block ends normally, "raise": it raises)
session_cleanup(kind) == kind \in {"return", "raise"}

---------------------------------------------------------------------------
(* Inputs *)

U_base == "http://e.example/"
U_example == "http://e.example/unit/%@/%d"
U_example_norm == "http://e.example/unit/{unit}/{}"

\* a configuration document as the service publishes it: URLs and metadata
FullDoc ==
    ("auth-url" :> "http://e.example/auth") @@ ("signout-url" :> "http://e.example/out") @@ ("current-user-unit" :> "http://e.example/cuu")
    @@ ("x" :> U_example) @@ ("photo-url" :> "http://e.example/photo/url/%@")
    @@ ("version" :> "1.0") @@ ("flags" :> "httponly")

Without(doc, keys) == [k \in DOMAIN doc \ keys |-> doc[k]]

\* the documents a client is built from
Docs == {FullDoc, Without(FullDoc, {"signout-url"}), Without(FullDoc, {"auth-url"})}

\* pieces of generated URLs: the literals the normalisation rules look for,
\* and placeholders in other positions
Chunks ==
    {"unit/%@",
     "unitNumber=%@",
     "membership-record/%@",
     "photo/url/%@",
     "%@", "&id=%@",
     "/%d", "/%.0f", "/"}

RECURSIVE Tails(_)
Tails(n) == IF n = 0 THEN {""} ELSE Tails(n - 1) \cup {t \o c : t \in Tails(n - 1), c \in Chunks}

\* generated bootstrap values, with the example of the documentation
GenURLs == {U_base \o t : t \in Tails(MaxChunks)} \cup {U_example}

GenKeys == {"x", "unit-x"}

Units == {"1", "2"}

\* the current-user-unit response: the request fails, the JSON has no
\* 'message', or the message is a unit number
UnitResps ==
    {[net |-> FALSE, msg |-> <<>>], [net |-> TRUE, msg |-> <<>>]}
        \cup {[net |-> TRUE, msg |-> <<u>>] : u \in Units}

\* the auth response: its status code and whether it carries an ETag header
AuthResps == [status : {200, 401}, etag : BOOLEAN]

\* what a caller passes to get
GetNames == {"x", "photo-url", "current-user-unit", "version", "missing-endpoint"}
GetArgs == {<<>>, <<"5">>}
GetKwargs == {NoKw, ("member" :> "7"), ("q" :> "1") @@ ("unit" :> "9")}

\* A response is drawn for a request the call sends.  The call is first run
\* against answers that let it go on (UnitOk, TRUE); the requests of that run
\* are the ones whose answers matter.
UnitOk == [net |-> TRUE, msg |-> <<"1">>]
SendsBy(trace, by) == \E i \in 1..Len(trace) : trace[i].by = by
UnitRespsFor(run) == IF SendsBy(run.trace, "get_unit") THEN UnitResps ELSE {UnitOk}
OksFor(run) == IF SendsBy(run.trace, "get") THEN BOOLEAN ELSE {TRUE}

---------------------------------------------------------------------------
(* State machine *)

NoAuth == [status |-> 0, etag |-> FALSE]

NoOp ==
    [op |-> "none", by |-> "", endpoint |-> "", args |-> <<>>, kwargs |-> NoKw,
     aresp |-> NoAuth, outcome |-> "", value |-> <<>>, trace |-> <<>>,
     si0 |-> FALSE, cache0 |-> <<>>]

\* the record of an operation: its inputs, how it ended, what it sent, and
\* signed_in and the cached unit as they were when it was called
Op(op, by, endpoint, args, kwargs, outcome, value, trace) ==
    [op |-> op, by |-> by, endpoint |-> endpoint, args |-> args, kwargs |-> kwargs,
     aresp |-> NoAuth, outcome |-> outcome, value |-> value, trace |-> trace,
     si0 |-> signed_in, cache0 |-> unit_cache]

\* the record of a sign_in, with the auth response when the POST was sent
AuthOp(op, aresp, outcome, trace) ==
    [Op(op, "caller", "", <<>>, NoKw, outcome, <<>>, trace)
        EXCEPT !.aresp = IF SendsBy(trace, "sign_in") THEN aresp ELSE NoAuth]

NoStats ==
    [via_session |-> FALSE, creds |-> FALSE,
     sign_in_called |-> FALSE, unit_gets |-> 0, unit_fetches |-> 0,
     cleanups |-> 0, exit_kind |-> "", exit_outcome |-> ""]

\* successful requests of a trace to the current-user-unit endpoint
UnitGets(trace) ==
    Cardinality({i \in 1..Len(trace) :
        trace[i].kind = "GET" /\ trace[i].ep = "current-user-unit" /\ trace[i].ok})

\* those of them that get_unit sent
UnitFetches(trace) ==
    Cardinality({i \in 1..Len(trace) : trace[i].by = "get_unit" /\ trace[i].ok})

Counted(st, trace) ==
    [st EXCEPT !.unit_gets = @ + UnitGets(trace), !.unit_fetches = @ + UnitFetches(trace)]

InitWith(docs) ==
    /\ phase = "new"
    /\ bootstrap \in docs
    /\ endpoints = [k \in {} |-> ""]
    /\ signed_in = FALSE
    /\ unit_cache = <<>>
    /\ last = NoOp
    /\ calls = 0
    /\ stats = NoStats

Init == InitWith(Docs)

InitNorm == InitWith({(k :> u) : k \in GenKeys, u \in GenURLs})

\* Client.__init__ (lines 33-52), called directly or by session() (line 190)
Construct(via, creds, status, aresp) ==
    /\ phase = "new"
    /\ LET disc == Req("GET", "discover", "", ENDPOINTS_URL, FALSE, TRUE)
           eps == retrieve_endpoints(bootstrap)
           s == sign_in_call(eps, FALSE, aresp)
       IN IF status # 200
          THEN /\ phase' = "failed"
               /\ endpoints' = endpoints
               /\ signed_in' = FALSE
               /\ last' = Op("init", "caller", "", <<>>, NoKw, "AssertionError",
                             <<>>, <<disc>>)
               /\ stats' = [stats EXCEPT !.via_session = via, !.creds = creds]
          ELSE IF ~creds
          THEN /\ phase' = IF via THEN "body" ELSE "direct"
               /\ endpoints' = eps
               /\ signed_in' = FALSE
               /\ last' = Op("init", "caller", "", <<>>, NoKw, "ok", <<>>, <<disc>>)
               /\ stats' = [stats EXCEPT !.via_session = via, !.creds = creds]
          ELSE /\ phase' = IF s.outcome # "ok" THEN "failed"
                           ELSE IF via THEN "body" ELSE "direct"
               /\ endpoints' = eps
               /\ signed_in' = s.si
               /\ last' = AuthOp("init", aresp, s.outcome, <<disc>> \o s.trace)
               /\ stats' = [stats EXCEPT !.via_session = via, !.creds = creds,
                                         !.sign_in_called = TRUE]
    /\ UNCHANGED <<bootstrap, unit_cache, calls>>

\* the client is in the caller's hands: built directly, or inside the with
\* block of a session()
Usable == phase \in {"direct", "body"} /\ calls < MaxCalls

SignIn(aresp) ==
    /\ Usable
    /\ \E s \in {sign_in_call(endpoints, signed_in, aresp)} :
       /\ signed_in' = s.si
       /\ last' = AuthOp("sign_in", aresp, s.outcome, s.trace)
       /\ stats' = [stats EXCEPT !.sign_in_called = TRUE]
    /\ calls' = calls + 1
    /\ UNCHANGED <<phase, bootstrap, endpoints, unit_cache>>

GetUnit(uresp) ==
    /\ Usable
    /\ \E u \in {get_unit_call(endpoints, signed_in, unit_cache, uresp)} :
       /\ unit_cache' = u.cache
       /\ last' = Op("get_unit", "caller", "", <<>>, NoKw, u.outcome, u.value, u.trace)
       /\ stats' = Counted(stats, u.trace)
    /\ calls' = calls + 1
    /\ UNCHANGED <<phase, bootstrap, endpoints, signed_in>>

Get(endpoint, args, kwargs, uresp, ok) ==
    /\ Usable
    /\ \E g \in {get_call(endpoints, signed_in, unit_cache, endpoint, args, kwargs,
                         uresp, ok)} :
       /\ unit_cache' = g.cache
       /\ last' = Op("get", "caller", endpoint, args, kwargs, g.outcome, <<>>, g.trace)
       /\ stats' = Counted(stats, g.trace)
    /\ calls' = calls + 1
    /\ UNCHANGED <<phase, bootstrap, endpoints, signed_in>>

SignOut(uresp, ok) ==
    /\ Usable
    /\ \E o \in {sign_out_call(endpoints, signed_in, unit_cache, uresp, ok)} :
       /\ signed_in' = o.si
       /\ unit_cache' = o.cache
       /\ last' = Op("sign_out", "caller", "", <<>>, NoKw, o.outcome, <<>>, o.trace)
       /\ stats' = Counted(stats, o.trace)
    /\ calls' = calls + 1
    /\ UNCHANGED <<phase, bootstrap, endpoints>>

\* the with block of a session() ends, by returning or by raising
\* (lines 191-194)
ExitScope(kind, uresp, ok) ==
    /\ phase = "body"
    /\ phase' = "exited"
    /\ IF session_cleanup(kind)
       THEN \E o \in {sign_out_call(endpoints, signed_in, unit_cache, uresp, ok)} :
            /\ signed_in' = o.si
            /\ unit_cache' = o.cache
            /\ last' = Op("sign_out", "session", "", <<>>, NoKw, o.outcome, <<>>,
                          o.trace)
            /\ stats' = [Counted(stats, o.trace) EXCEPT !.cleanups = @ + 1,
                                                        !.exit_kind = kind,
                                                        !.exit_outcome = o.outcome]
       ELSE /\ UNCHANGED <<signed_in, unit_cache, last>>
            /\ stats' = [stats EXCEPT !.exit_kind = kind]
    /\ UNCHANGED <<bootstrap, endpoints, calls>>

\* a caller's get_unit(), with the answer to the request it sends, if any
CallerGetUnit ==
    /\ Usable
    /\ \E uresp \in UnitRespsFor(get_unit_call(endpoints, signed_in, unit_cache, UnitOk)) :
          GetUnit(uresp)

\* a caller's get(endpoint, *args, **kwargs), with the answers to its requests
CallerGet ==
    /\ Usable
    /\ \E endpoint \in GetNames, args \in GetArgs, kwargs \in GetKwargs :
          \E run \in {get_call(endpoints, signed_in, unit_cache, endpoint, args,
                               kwargs, UnitOk, TRUE)} :
             \E uresp \in UnitRespsFor(run), ok \in OksFor(run) :
                Get(endpoint, args, kwargs, uresp, ok)

\* a caller's sign_out(), with the answers to its requests
CallerSignOut ==
    /\ Usable
    /\ \E run \in {sign_out_call(endpoints, signed_in, unit_cache, UnitOk, TRUE)} :
          \E uresp \in UnitRespsFor(run), ok \in OksFor(run) : SignOut(uresp, ok)

\* the end of the with block, with the answers to the requests of its sign_out
LeaveScope ==
    /\ phase = "body"
    /\ \E run \in {sign_out_call(endpoints, signed_in, unit_cache, UnitOk, TRUE)} :
          \E kind \in {"return", "raise"}, uresp \in UnitRespsFor(run), ok \in OksFor(run) :
             ExitScope(kind, uresp, ok)

Next ==
    \/ \E via \in BOOLEAN, creds \in BOOLEAN, status \in {200, 500}, aresp \in AuthResps :
          Construct(via, creds, status, aresp)
    \/ \E aresp \in AuthResps : SignIn(aresp)
    \/ CallerGetUnit
    \/ CallerGet
    \/ CallerSignOut
    \/ LeaveScope

Spec == Init /\ [][Next]_vars

\* discovery alone, over generated documents
NextNorm ==
    \E status \in {200, 500} :
        Construct(FALSE, FALSE, status, [status |-> 200, etag |-> TRUE])

SpecNorm == InitNorm /\ [][NextNorm]_vars

TypeOK ==
    /\ phase \in {"new", "direct", "body", "exited", "failed"}
    /\ signed_in \in BOOLEAN
    /\ unit_cache \in {<<>>} \cup {<<u>> : u \in Units}
    /\ calls \in 0..MaxCalls

---------------------------------------------------------------------------
(* Properties *)

Built == phase \in {"direct", "body", "exited"}

IsSignOut == last.op = "sign_out"

\* C1: a GET that get or get_unit sends to a discovered endpoint is sent only
\* while signed_in is true, and a get on a known endpoint called while signed
\* out fails as a precondition violation without sending anything.
C1_EndpointCallsRequireSignIn ==
    /\ \A i \in 1..Len(last.trace) :
          (last.trace[i].kind = "GET" /\ last.trace[i].by \in {"get", "get_unit"}
              /\ last.trace[i].ep # "auth-url")
          => last.trace[i].si
    /\ (last.op = "get" /\ ~last.si0 /\ last.endpoint \in DOMAIN endpoints)
          => (last.outcome = "AssertionError" /\ last.trace = <<>>)

\* C2: leaving the scope of a session() built without credentials, in which
\* sign_in was never called, raises no precondition violation.
C2_ScopeExitWithoutSignInDoesNotRaise ==
    (phase = "exited" /\ ~stats.creds /\ ~stats.sign_in_called)
        => stats.exit_outcome # "AssertionError"

\* C3: a scope entered through session() whose client was built runs
\* sign_out exactly once, when the body ends, whether the body returns or
\* raises, and as the last operation on the client; before that, and when
\* the construction failed, session() has not run it.
C3_SignOutOnEveryExit ==
    /\ phase \in {"new", "failed", "direct", "body"} => stats.cleanups = 0
    /\ phase = "exited" =>
          /\ stats.cleanups = 1
          /\ stats.exit_kind \in {"return", "raise"}
          /\ IsSignOut /\ last.by = "session"

C3_Witness ==
    phase = "exited" /\ stats.exit_kind = "raise" /\ stats.cleanups = 1 /\ calls > 0

\* C4: a sign_in on a signed-out client whose auth response has no ETag
\* header raises Error and leaves signed_in false, whatever the status code;
\* signed_in turns true only in a sign_in whose response carries the header.
C4_SignInNeedsETag ==
    /\ (last.op \in {"sign_in", "init"} /\ SendsBy(last.trace, "sign_in")
            /\ ~last.si0 /\ ~last.aresp.etag)
          => (last.outcome = "Error" /\ ~signed_in)
    /\ (signed_in /\ ~last.si0)
          => (last.op \in {"sign_in", "init"} /\ last.aresp.etag /\ last.outcome = "ok")

C4_Witness ==
    /\ last.op = "sign_in" /\ ~last.si0
    /\ last.aresp = [status |-> 200, etag |-> FALSE]
    /\ last.outcome = "Error" /\ ~signed_in

\* C5 as stated: at most one successful request reaches the
\* current-user-unit endpoint per client.
C5_AtMostOneUnitRequest == stats.unit_gets <= 1

\* C5, amended: once get_unit has returned a value, the cached value never
\* changes, every later get_unit call (direct, or inside get or sign_out)
\* returns it and sends nothing, signed in or not; get_unit sends at most one
\* request that yields a value per client.  (get('current-user-unit') sends
\* its own GET to that endpoint on every call.)
C5_GetUnitFetchesOnce ==
    /\ stats.unit_fetches <= 1
    /\ last.cache0 # <<>> =>
          /\ unit_cache = last.cache0
          /\ ~SendsBy(last.trace, "get_unit")
          /\ last.op = "get_unit" => (last.outcome = "ok" /\ last.value = last.cache0)
          /\ stats.unit_fetches = 1

C5_Witness ==
    /\ last.op = "get_unit" /\ last.cache0 # <<>> /\ ~last.si0
    /\ last.outcome = "ok" /\ stats.sign_in_called

\* C6: get on a name that is not in the endpoint map raises the
\* unknown-endpoint Error, sends no request (not even the unit request),
\* and leaves signed_in and the cached unit as they were, in every state of
\* the client; so does the get('signout-url') of a sign_out when the map has
\* no signout-url.
C6_UnknownEndpointNoNetwork ==
    (\/ last.op = "get" /\ last.endpoint \notin DOMAIN endpoints
     \/ IsSignOut /\ last.si0 /\ "signout-url" \notin DOMAIN endpoints)
        => /\ last.outcome = "Error"
           /\ last.trace = <<>>
           /\ signed_in = last.si0
           /\ unit_cache = last.cache0

C6_Witness ==
    /\ last.op = "get" /\ last.endpoint = "missing-endpoint"
    /\ last.si0 /\ last.cache0 = <<>> /\ "current-user-unit" \in DOMAIN endpoints
    /\ last.outcome = "Error"

\* the rules as the specification words them
HasHttpScheme(v) ==
    \/ StartsWith(v, "http://")
    \/ StartsWith(v, "https://")

StatedUnitRule(key, url) ==
    IF Contains(url, "unit/%@") THEN Replace(url, "unit/%@", "unit/{unit}")
    ELSE IF Contains(url, "unitNumber=%@")
         THEN Replace(url, "unitNumber=%@",
                      "unitNumber={unit}")
    ELSE IF StartsWith(key, "unit-") /\ EndsWith(url, "%@")
         THEN SubSeq(url, 1, Len(url) - 2) \o "{unit}"
    ELSE url

StatedMemberRule(url) ==
    IF Contains(url, "membership-record/%@")
    THEN Replace(url, "membership-record/%@",
                 "membership-record/{member}")
    ELSE IF Contains(url, "photo/url/%@")
         THEN Replace(url, "photo/url/%@",
                      "photo/url/{member}")
    ELSE url

StatedGenericRule(url) ==
    Replace(Replace(Replace(url, "%@", "{}"), "%d", "{}"), "%.0f", "{}")

\* the rules with the three departures of the code: the third unit rule asks
\* for the suffix "/%@", the unitNumber rule rewrites every "=%@", and the
\* membership-record rule rewrites every "%@"
ActualUnitRule(key, url) ==
    IF Contains(url, "unit/%@") THEN Replace(url, "unit/%@", "unit/{unit}")
    ELSE IF Contains(url, "unitNumber=%@") THEN Replace(url, "=%@", "={unit}")
    ELSE IF StartsWith(key, "unit-") /\ EndsWith(url, "/%@")
         THEN SubSeq(url, 1, Len(url) - 2) \o "{unit}"
    ELSE url

ActualMemberRule(url) ==
    IF Contains(url, "membership-record/%@") THEN Replace(url, "%@", "{member}")
    ELSE IF Contains(url, "photo/url/%@") THEN Replace(url, "url/%@", "url/{member}")
    ELSE url

\* C7 as stated: every stored template is what the stated rules give.
C7_TemplatesFollowStatedRules ==
    Built => \A k \in DOMAIN endpoints :
        endpoints[k] = StatedGenericRule(StatedMemberRule(StatedUnitRule(k, bootstrap[k])))

\* C7, amended: every stored template is what the rules give when the third
\* unit rule requires the three-character suffix "/%@" (and then replaces
\* the final "%@" by "{unit}"), the unitNumber=%@ rule turns every "=%@" of
\* the URL into "={unit}", and the membership-record/%@ rule turns every
\* "%@" of the URL into "{member}" (the photo rule every "url/%@" into
\* "url/{member}"); http://e.example/unit/%@/%d becomes
\* http://e.example/unit/{unit}/{}.
C7_TemplatesFollowActualRules ==
    Built =>
        /\ \A k \in DOMAIN endpoints :
              endpoints[k] = StatedGenericRule(ActualMemberRule(ActualUnitRule(k, bootstrap[k])))
        /\ \A k \in DOMAIN bootstrap :
              bootstrap[k] = U_example => endpoints[k] = U_example_norm

C7_Witness ==
    /\ Built
    /\ \E k \in DOMAIN endpoints :
          /\ StartsWith(k, "unit-")
          /\ EndsWith(bootstrap[k], "%@") /\ ~EndsWith(bootstrap[k], "/%@")
          /\ ~Contains(bootstrap[k], "unit/%@")
          /\ ~Contains(bootstrap[k], "unitNumber=%@")
          /\ ~Contains(bootstrap[k], "membership-record/%@")
          /\ EndsWith(endpoints[k], "{}")

\* C8 as stated: the map holds exactly the keys whose bootstrap value starts
\* with the scheme http:// or https://, and every stored value is such a URL.
C8_OnlySchemeEntries ==
    Built =>
        /\ DOMAIN endpoints = {k \in DOMAIN bootstrap : HasHttpScheme(bootstrap[k])}
        /\ \A k \in DOMAIN endpoints : HasHttpScheme(endpoints[k])

\* C8, amended: after construction the map holds exactly the keys whose
\* bootstrap value starts with the four characters "http" (a value such as
\* "httponly" is kept), every stored value starts with "http", and no later
\* operation adds, removes or changes an entry: in every state each value
\* is still the template built from its bootstrap value.
C8_OnlyHttpPrefixEntries ==
    Built =>
        /\ DOMAIN endpoints = {k \in DOMAIN bootstrap : StartsWith(bootstrap[k], "http")}
        /\ \A k \in DOMAIN endpoints :
              /\ StartsWith(endpoints[k], "http")
              /\ endpoints[k] =
                    StatedGenericRule(ActualMemberRule(ActualUnitRule(k, bootstrap[k])))

C8_Witness ==
    /\ Built /\ calls = 2 /\ IsSignOut /\ last.outcome = "ok"
    /\ "flags" \in DOMAIN endpoints /\ "version" \in DOMAIN bootstrap \ DOMAIN endpoints

\* C9: a successful get sends its GET to the substituted URL and passes on,
\* as query parameters, every keyword argument of the caller that the
\* template did not consume.
C9_RemainingKwargsPassedOn ==
    (last.op = "get" /\ last.outcome = "ok") =>
        LET r == last.trace[Len(last.trace)]
            t == endpoints[last.endpoint]
        IN /\ r.kind = "GET" /\ r.ep = last.endpoint
           /\ r.url = Format(t, last.args, WithUnit(last.kwargs, unit_cache)).url
           /\ (DOMAIN last.kwargs \ (FieldNames(t) \cup {"unit"})) \subseteq r.params

\* C10: sign_out on a signed-in client sends the GET to signout-url while
\* signed_in is still true and clears the flag only after it, as its last
\* step; when sign_out raises, the flag has not been touched and stays true.
C10_FlagClearedAfterRequest ==
    (IsSignOut /\ last.si0) =>
        LET tr == last.trace
            n == Len(tr)
        IN /\ last.outcome = "ok" =>
                 /\ ~signed_in
                 /\ n >= 2
                 /\ tr[n] = SetFlag("sign_out", FALSE)
                 /\ tr[n - 1].kind = "GET" /\ tr[n - 1].ep = "signout-url"
                 /\ tr[n - 1].si /\ tr[n - 1].ok
           /\ last.outcome # "ok" => signed_in
           /\ \A i \in 1..n : tr[i].kind = "SET" => (i = n /\ last.outcome = "ok")

C10_Witness ==
    /\ IsSignOut /\ last.si0 /\ last.outcome = "ConnectionError" /\ signed_in
    /\ SendsBy(last.trace, "get")

====
